---- MODULE Spec2Model ----
(***************************************************************************)
(* fust-orm (src/lib.rs): a QueryBuilder that serialises a SELECT with     *)
(* equality filters to SQL text plus bound parameters, and a Database      *)
(* handle that connects a pool, executes a QueryBuilder asynchronously and *)
(* decodes the rows by declared column type.                               *)
(*                                                                         *)
(* Strings of the program are TLA+ strings; \o is the concatenation that   *)
(* format!, push_str and join perform.                                     *)
(***************************************************************************)
EXTENDS Integers, Sequences, FiniteSets, TLC

VARIABLES
    objs,       \* the QueryBuilder objects the caller holds, in creation order
    last,       \* the most recent QueryBuilder call: receiver before, result
    outs,       \* outputs of build on one object since it last changed
    connects,   \* the connect calls: future state and what the caller got
    pools,      \* the pools the driver opened: path, connections checked out
    tasks       \* the execute calls: future state and what the caller got

qvars == <<objs, last, outs>>
dbvars == <<connects, pools, tasks>>
vars == <<objs, last, outs, connects, pools, tasks>>

----------------------------------------------------------------------------
(* Bounds and input sets *)

\* QueryBuilder objects the caller holds (select and where_ each create one)
NumObjs == 4
\* build calls recorded on one unchanged object
MaxBuilds == 2
\* objects held while an execution is in flight (SpecShare)
ShareObjs == 3
\* connect calls
NumConnects == 1
\* execute calls
NumTasks == 2
\* connections of a pool (the pool's max_connections)
PoolCap == 1

Tables == {"users"}
ColumnLists == {<<>>, <<"id", "name">>}
FilterInputs == {<<"id", "1">>, <<"id", "2">>, <<"active", "true">>}

----------------------------------------------------------------------------
(* QueryBuilder *)

\* struct QueryBuilder { table, columns, where_clauses }
QueryBuilder(table, columns, where_clauses) ==
    [table |-> table, columns |-> columns, where_clauses |-> where_clauses]

NoQuery == QueryBuilder("", <<>>, <<>>)
NoOutput == [sql |-> "", params |-> <<>>]
NoCall == [op |-> "none", obj |-> 0, ret |-> 0, pre |-> NoQuery,
           column |-> "", value |-> "", out |-> NoOutput]

\* [T]::join(sep): the first element, then sep and the next element for
\* each of the rest; "" for an empty slice
RECURSIVE JoinTo(_, _, _)
JoinTo(v, sep, n) ==
    IF n = 0 THEN ""
    ELSE IF n = 1 THEN v[1]
    ELSE JoinTo(v, sep, n - 1) \o sep \o v[n]

join(v, sep) == JoinTo(v, sep, Len(v))

\* format!("{} = ?", col)
conditionTemplateSql(col) == col \o " = ?"

\* the closure of the map over where_clauses: the condition text of one
\* clause; the value is pushed to params, never formatted into the text
condition(clause) == conditionTemplateSql(clause[1])

\* params collected back to front
pushedParamsReversed(where_clauses) ==
    [i \in 1..Len(where_clauses) |->
        where_clauses[Len(where_clauses) + 1 - i][2]]

\* params after the iteration: val.clone() pushed once per clause, in order
pushedParams(where_clauses) ==
    [i \in 1..Len(where_clauses) |-> where_clauses[i][2]]

\* a build that formats the value into the text instead of binding it
buildInterpolated(self) ==
    LET cols == join(self.columns, ", ")
        sql == "SELECT " \o cols \o " FROM " \o self.table
        conditions == [i \in 1..Len(self.where_clauses) |->
                          self.where_clauses[i][1] \o " = '"
                            \o self.where_clauses[i][2] \o "'"]
    IN  IF self.where_clauses /= <<>>
        THEN [sql |-> sql \o " WHERE " \o join(conditions, " AND "),
              params |-> <<>>]
        ELSE [sql |-> sql, params |-> <<>>]

\* a build without the is_empty test
buildAlwaysWhere(self) ==
    LET cols == join(self.columns, ", ")
        sql == "SELECT " \o cols \o " FROM " \o self.table
        conditions == [i \in 1..Len(self.where_clauses) |->
                          condition(self.where_clauses[i])]
    IN  [sql |-> sql \o " WHERE " \o join(conditions, " AND "),
         params |-> pushedParams(self.where_clauses)]

\* fn build(&self) -> (String, Vec<String>)
build(self) ==
    LET cols == join(self.columns, ", ")
        sql == "SELECT " \o cols \o " FROM " \o self.table
        conditions == [i \in 1..Len(self.where_clauses) |->
                          condition(self.where_clauses[i])]
    IN  IF self.where_clauses /= <<>>
        THEN [sql |-> sql \o " WHERE " \o join(conditions, " AND "),
              params |-> pushedParams(self.where_clauses)]
        ELSE [sql |-> sql, params |-> <<>>]

\* an insert at the front
pushFront(vec, item) == <<item>> \o vec

\* Vec::push
push(vec, item) == Append(vec, item)

\* QueryBuilder::select(table, columns): a new object with no filters
select(table, columns) ==
    /\ Len(objs) < NumObjs
    /\ objs' = Append(objs, QueryBuilder(table, columns, <<>>))
    /\ last' = [NoCall EXCEPT !.op = "select", !.ret = Len(objs) + 1]
    /\ UNCHANGED <<outs, dbvars>>

\* a where_ whose clones share one filter list with every object of the
\* same table
where_shared(d, column, value) ==
    /\ d \in 1..Len(objs)
    /\ Len(objs) < NumObjs
    /\ LET pushed == [i \in 1..Len(objs) |->
                        IF objs[i].table = objs[d].table
                        THEN [objs[i] EXCEPT !.where_clauses =
                                 push(@, <<column, value>>)]
                        ELSE objs[i]]
       IN  objs' = Append(pushed, pushed[d])
    /\ last' = [NoCall EXCEPT !.op = "where_", !.obj = d,
                              !.ret = Len(objs) + 1, !.pre = objs[d],
                              !.column = column, !.value = value]
    /\ outs' = IF outs.obj = d THEN [obj |-> 0, seq |-> <<>>] ELSE outs
    /\ UNCHANGED dbvars

\* QueryBuilder::where_(&mut self, column, value) -> Self: pushes onto the
\* receiver and returns a clone of it as a new object
where_(d, column, value) ==
    /\ d \in 1..Len(objs)
    /\ Len(objs) < NumObjs
    /\ LET self == [objs[d] EXCEPT !.where_clauses =
                       push(@, <<column, value>>)]
       IN  objs' = Append([objs EXCEPT ![d] = self], self)
    /\ last' = [NoCall EXCEPT !.op = "where_", !.obj = d,
                              !.ret = Len(objs) + 1, !.pre = objs[d],
                              !.column = column, !.value = value]
    /\ outs' = IF outs.obj = d THEN [obj |-> 0, seq |-> <<>>] ELSE outs
    /\ UNCHANGED dbvars

\* a serialisation that takes the filters out of the receiver
toSqlDraining(d) ==
    /\ d \in 1..Len(objs)
    /\ Len(IF outs.obj = d THEN outs.seq ELSE <<>>) < MaxBuilds
    /\ LET out == build(objs[d])
       IN  /\ last' = [NoCall EXCEPT !.op = "build", !.obj = d,
                                     !.pre = objs[d], !.out = out]
           /\ outs' = [obj |-> d,
                       seq |-> Append(IF outs.obj = d THEN outs.seq
                                      ELSE <<>>, out)]
    /\ objs' = [objs EXCEPT ![d].where_clauses = <<>>]
    /\ UNCHANGED dbvars

\* toSql(): one call of build on object d; &self leaves the object alone.
\* outs keeps the outputs returned for d since it was last changed.
toSql(d) ==
    /\ d \in 1..Len(objs)
    /\ Len(IF outs.obj = d THEN outs.seq ELSE <<>>) < MaxBuilds
    /\ LET out == build(objs[d])
       IN  /\ last' = [NoCall EXCEPT !.op = "build", !.obj = d,
                                     !.pre = objs[d], !.out = out]
           /\ outs' = [obj |-> d,
                       seq |-> Append(IF outs.obj = d THEN outs.seq
                                      ELSE <<>>, out)]
    /\ UNCHANGED <<objs, dbvars>>

----------------------------------------------------------------------------
(* DatabaseError *)

NoError == [kind |-> "", msg |-> "", text |-> ""]

\* DatabaseError::ConnectionError(msg), #[error("Connection error: {0}")]
ConnectionError(msg) ==
    [kind |-> "ConnectionError", msg |-> msg,
     text |-> "Connection error: " \o msg]

\* DatabaseError::QueryError(msg), #[error("Query error: {0}")]
QueryError(msg) ==
    [kind |-> "QueryError", msg |-> msg, text |-> "Query error: " \o msg]

----------------------------------------------------------------------------
(* The driver and the database behind it *)

\* locations at which the driver can open a database
ReachablePaths == {"sqlite::memory:"}
DbPaths == {"sqlite::memory:", "sqlite:/missing/app.db"}

Stored(kind, v) == [kind |-> kind, v |-> v]
NullStored == Stored("null", "")
Cell(name, decl, stored) == [name |-> name, decl |-> decl, stored |-> stored]

\* users(id INTEGER, name TEXT)
UsersRows ==
    << <<Cell("id", "INTEGER", Stored("integer", "1")),
         Cell("name", "TEXT", Stored("text", "alice"))>>,
       <<Cell("id", "INTEGER", Stored("integer", "2")),
         Cell("name", "TEXT", NullStored)>> >>

\* items(id INTEGER, label TEXT, price REAL, image BLOB, flag NUMERIC)
ItemsRows ==
    << <<Cell("id", "INTEGER", Stored("integer", "7")),
         Cell("label", "TEXT", Stored("text", "pen")),
         Cell("price", "REAL", Stored("real", "1.5")),
         Cell("image", "BLOB", Stored("blob", "x'cafe'")),
         Cell("flag", "NUMERIC", Stored("integer", "1"))>>,
       <<Cell("id", "INTEGER", NullStored),
         Cell("label", "TEXT", NullStored),
         Cell("price", "REAL", NullStored),
         Cell("image", "BLOB", NullStored),
         Cell("flag", "NUMERIC", NullStored)>> >>

\* loose(qty INTEGER): the second row stores a text in the INTEGER column
LooseRows ==
    << <<Cell("qty", "INTEGER", Stored("integer", "3"))>>,
       <<Cell("qty", "INTEGER", Stored("text", "many"))>>,
       <<Cell("qty", "INTEGER", Stored("integer", "5"))>> >>

\* the statements over users the database accepts, by number of placeholders
RECURSIVE UsersStatement(_)
UsersStatement(n) ==
    IF n = 0 THEN "SELECT id, name FROM users"
    ELSE IF n = 1 THEN UsersStatement(0) \o " WHERE id = ?"
    ELSE UsersStatement(n - 1) \o " AND id = ?"

ItemsStatement == "SELECT id, label, price, image, flag FROM items"
LooseStatement == "SELECT qty FROM loose"

\* sqlx::query(&sql) with every param bound: what fetch_all gets from the
\* database. A statement the database cannot prepare is a driver error.
fetch_all(sql, binds) ==
    IF sql = UsersStatement(Len(binds))
    THEN [ok |-> TRUE, msg |-> "",
          rows |-> SelectSeq(UsersRows,
                     LAMBDA row : \A i \in 1..Len(binds) :
                                     row[1].stored.v = binds[i])]
    ELSE IF sql = ItemsStatement /\ binds = <<>>
    THEN [ok |-> TRUE, msg |-> "", rows |-> ItemsRows]
    ELSE IF sql = LooseStatement /\ binds = <<>>
    THEN [ok |-> TRUE, msg |-> "", rows |-> LooseRows]
    ELSE [ok |-> FALSE, msg |-> "error returned from database: " \o sql,
          rows |-> <<>>]

\* SqlitePool::connect(&db_path)
SqlitePoolConnect(db_path) ==
    IF db_path \in ReachablePaths
    THEN [ok |-> TRUE, msg |-> ""]
    ELSE [ok |-> FALSE, msg |-> "unable to open database file"]

\* row.try_get::<Option<T>, _>(i): None for a stored NULL, the value when
\* its storage class is T's, a decode error otherwise
try_get(cell, kind) ==
    IF cell.stored.kind = "null"
    THEN [ok |-> TRUE, some |-> FALSE, v |-> "", msg |-> ""]
    ELSE IF cell.stored.kind = kind
    THEN [ok |-> TRUE, some |-> TRUE, v |-> cell.stored.v, msg |-> ""]
    ELSE [ok |-> FALSE, some |-> FALSE, v |-> "",
          msg |-> "mismatched types for column " \o cell.name]

----------------------------------------------------------------------------
(* Database *)

\* The values Python receives
PyValue(tag, v) == [tag |-> tag, v |-> v]
PyNone == PyValue("Null", "")

\* Option<T>::into_pyobject: Some(v) as the Python value of T, None as None
into_pyobject(got, tag) ==
    IF got.some THEN PyValue(tag, got.v) ELSE PyNone

\* a decode that looks at the stored value when the declared type is unknown
decodeCellByStorage(cell) ==
    LET arm(kind, tag) ==
            LET got == try_get(cell, kind)
            IN  IF got.ok
                THEN [ok |-> TRUE, value |-> into_pyobject(got, tag), msg |-> ""]
                ELSE [ok |-> FALSE, value |-> PyNone, msg |-> got.msg]
    IN  CASE cell.decl = "TEXT" -> arm("text", "Text")
          [] cell.decl = "INTEGER" -> arm("integer", "Integer")
          [] cell.decl = "REAL" -> arm("real", "Real")
          [] cell.decl = "BLOB" -> arm("blob", "Blob")
          [] OTHER ->
               CASE cell.stored.kind = "text" -> arm("text", "Text")
                 [] cell.stored.kind = "integer" -> arm("integer", "Integer")
                 [] cell.stored.kind = "real" -> arm("real", "Real")
                 [] cell.stored.kind = "blob" -> arm("blob", "Blob")
                 [] OTHER -> [ok |-> TRUE, value |-> PyNone, msg |-> ""]

\* match col.type_info().name() { "TEXT" => .., "INTEGER" => ..,
\* "REAL" => .., "BLOB" => .., _ => None }
decodeCell(cell) ==
    LET arm(kind, tag) ==
            LET got == try_get(cell, kind)
            IN  IF got.ok
                THEN [ok |-> TRUE, value |-> into_pyobject(got, tag), msg |-> ""]
                ELSE [ok |-> FALSE, value |-> PyNone, msg |-> got.msg]
    IN  CASE cell.decl = "TEXT" -> arm("text", "Text")
          [] cell.decl = "INTEGER" -> arm("integer", "Integer")
          [] cell.decl = "REAL" -> arm("real", "Real")
          [] cell.decl = "BLOB" -> arm("blob", "Blob")
          [] OTHER -> [ok |-> TRUE, value |-> PyNone, msg |-> ""]

\* the inner loop: dict.set_item(col_name, value) for each column in
\* order; the first cell that fails to decode ends the loop with its error
RECURSIVE decodeRow(_, _, _)
decodeRow(row, i, dict) ==
    IF i > Len(row) THEN [ok |-> TRUE, dict |-> dict, msg |-> ""]
    ELSE LET value == decodeCell(row[i])
         IN  IF value.ok
             THEN decodeRow(row, i + 1,
                     Append(dict, [name |-> row[i].name,
                                   value |-> value.value]))
             ELSE [ok |-> FALSE, dict |-> <<>>, msg |-> value.msg]

ExecResult(ok, records, err) == [ok |-> ok, records |-> records, err |-> err]
NoResult == ExecResult(FALSE, <<>>, NoError)

\* a decode loop that hands back the rows decoded before the failure
RECURSIVE decodeRowsKeepPartial(_, _, _)
decodeRowsKeepPartial(rows, i, results) ==
    IF i > Len(rows) THEN ExecResult(TRUE, results, NoError)
    ELSE LET dict == decodeRow(rows[i], 1, <<>>)
         IN  IF dict.ok
             THEN decodeRowsKeepPartial(rows, i + 1, Append(results, dict.dict))
             ELSE ExecResult(TRUE, results, NoError)

\* the outer loop under Python::attach: results.append(dict) for each row
\* in order; an error leaves through ? and the list is dropped
RECURSIVE decodeRows(_, _, _)
decodeRows(rows, i, results) ==
    IF i > Len(rows) THEN ExecResult(TRUE, results, NoError)
    ELSE LET dict == decodeRow(rows[i], 1, <<>>)
         IN  IF dict.ok
             THEN decodeRows(rows, i + 1, Append(results, dict.dict))
             ELSE ExecResult(FALSE, <<>>, QueryError(dict.msg))

\* sqlx_query.bind(param) for each param in order: text-typed bind values
bindAll(params) == [i \in 1..Len(params) |-> params[i]]

NoConnect == [pc |-> "idle", db_path |-> "", ok |-> FALSE, pool |-> 0,
              err |-> NoError]
NoTask == [pc |-> "idle", handle |-> 0, pool |-> 0, query |-> NoQuery,
           sql |-> "", binds |-> <<>>, rows |-> <<>>, result |-> NoResult]

\* Database::connect(db_path): the future is created
connect(c, db_path) ==
    /\ connects[c].pc = "idle"
    /\ connects' = [connects EXCEPT ![c] =
                      [NoConnect EXCEPT !.pc = "pending", !.db_path = db_path]]
    /\ UNCHANGED <<pools, tasks, qvars>>

\* a connect that hands out a handle although the pool did not open
connectFutureLenient(c) ==
    /\ connects[c].pc = "pending"
    /\ LET opened == SqlitePoolConnect(connects[c].db_path)
       IN  IF opened.ok
           THEN /\ pools' = Append(pools, [path |-> connects[c].db_path,
                                           busy |-> 0])
                /\ connects' = [connects EXCEPT ![c].pc = "returned",
                                  ![c].ok = TRUE, ![c].pool = Len(pools) + 1]
           ELSE /\ connects' = [connects EXCEPT ![c].pc = "returned",
                                  ![c].ok = TRUE]
                /\ UNCHANGED pools
    /\ UNCHANGED <<tasks, qvars>>

\* the connect future: SqlitePool::connect(..).await, an error mapped to
\* ConnectionError, Ok(Database { pool }) otherwise
connectFuture(c) ==
    /\ connects[c].pc = "pending"
    /\ LET opened == SqlitePoolConnect(connects[c].db_path)
       IN  IF opened.ok
           THEN /\ pools' = Append(pools, [path |-> connects[c].db_path,
                                           busy |-> 0])
                /\ connects' = [connects EXCEPT ![c].pc = "returned",
                                  ![c].ok = TRUE, ![c].pool = Len(pools) + 1]
           ELSE /\ connects' = [connects EXCEPT ![c].pc = "returned",
                                  ![c].err = ConnectionError(opened.msg)]
                /\ UNCHANGED pools
    /\ UNCHANGED <<tasks, qvars>>

\* a clone that opens a pool of its own
poolCloneDeep(pool) == pool + 1

\* self.pool.clone(): another reference to the same pool
poolClone(pool) == pool

\* Database::execute(&self, query) on the handle connect c returned: the
\* pool reference is cloned and the future is created around the query
execute(t, c, query) ==
    /\ tasks[t].pc = "idle"
    /\ connects[c].pc = "returned"
    /\ connects[c].ok
    /\ tasks' = [tasks EXCEPT ![t] =
                   [NoTask EXCEPT !.pc = "created",
                                  !.handle = connects[c].pool,
                                  !.pool = poolClone(connects[c].pool),
                                  !.query = query]]
    /\ UNCHANGED <<connects, pools, qvars>>

\* the execute future up to the await: build, then bind every param
executeFuture(t) ==
    /\ tasks[t].pc = "created"
    /\ LET built == build(tasks[t].query)
       IN  tasks' = [tasks EXCEPT ![t].pc = "acquire",
                       ![t].sql = built.sql,
                       ![t].binds = bindAll(built.params)]
    /\ UNCHANGED <<connects, pools, qvars>>

\* fetch_all(&pool): a connection of the pool is checked out
fetchAcquire(t) ==
    /\ tasks[t].pc = "acquire"
    /\ tasks[t].pool \in 1..Len(pools)
    /\ pools[tasks[t].pool].busy < PoolCap
    /\ pools' = [pools EXCEPT ![tasks[t].pool].busy = @ + 1]
    /\ tasks' = [tasks EXCEPT ![t].pc = "running"]
    /\ UNCHANGED <<connects, qvars>>

\* fetch_all(&pool): no connection came free within the pool's acquire
\* timeout; the driver error is mapped to QueryError
fetchTimeout(t) ==
    /\ tasks[t].pc = "acquire"
    /\ tasks[t].pool \in 1..Len(pools) => pools[tasks[t].pool].busy >= PoolCap
    /\ tasks' = [tasks EXCEPT ![t].pc = "done",
                   ![t].result = ExecResult(FALSE, <<>>,
                       QueryError("pool timed out while waiting for an open connection"))]
    /\ UNCHANGED <<connects, pools, qvars>>

\* fetch_all(&pool).await completes: the connection goes back to the pool;
\* a driver error is mapped to QueryError, else all rows are held
fetchAll(t) ==
    /\ tasks[t].pc = "running"
    /\ pools' = [pools EXCEPT ![tasks[t].pool].busy = @ - 1]
    /\ LET fetched == fetch_all(tasks[t].sql, tasks[t].binds)
       IN  IF fetched.ok
           THEN tasks' = [tasks EXCEPT ![t].pc = "decode",
                            ![t].rows = fetched.rows]
           ELSE tasks' = [tasks EXCEPT ![t].pc = "done",
                            ![t].result = ExecResult(FALSE, <<>>,
                                             QueryError(fetched.msg))]
    /\ UNCHANGED <<connects, qvars>>

\* Python::attach(..): every row is decoded into a dict and the list is
\* returned, or the first error is
decode(t) ==
    /\ tasks[t].pc = "decode"
    /\ tasks' = [tasks EXCEPT ![t].pc = "done",
                   ![t].result = decodeRows(tasks[t].rows, 1, <<>>)]
    /\ UNCHANGED <<connects, pools, qvars>>

----------------------------------------------------------------------------
(* Specifications *)

InitQ ==
    /\ objs = <<>>
    /\ last = NoCall
    /\ outs = [obj |-> 0, seq |-> <<>>]
    /\ connects = [c \in 1..NumConnects |-> NoConnect]
    /\ pools = <<>>
    /\ tasks = [t \in 1..NumTasks |-> NoTask]

NextQ ==
    \/ \E t \in Tables, c \in ColumnLists : select(t, c)
    \/ \E d \in 1..NumObjs, f \in FilterInputs : where_(d, f[1], f[2])
    \/ \E d \in 1..NumObjs : toSql(d)

\* the QueryBuilder alone
SpecQ == InitQ /\ [][NextQ]_vars

QUsersById == QueryBuilder("users", <<"id", "name">>, <<<<"id", "1">>>>)
QItems ==
    QueryBuilder("items", <<"id", "label", "price", "image", "flag">>, <<>>)
QLoose == QueryBuilder("loose", <<"qty">>, <<>>)
QNoColumns == QueryBuilder("users", <<>>, <<>>)
ExecInputs == {QUsersById, QItems, QLoose, QNoColumns}

NextDb ==
    \/ \E c \in 1..NumConnects, p \in DbPaths : connect(c, p)
    \/ \E c \in 1..NumConnects : connectFuture(c)
    \/ \E t \in 1..NumTasks, c \in 1..NumConnects, q \in ExecInputs :
          execute(t, c, q)
    \/ \E t \in 1..NumTasks : executeFuture(t)
    \/ \E t \in 1..NumTasks : fetchAcquire(t)
    \/ \E t \in 1..NumTasks : fetchTimeout(t)
    \/ \E t \in 1..NumTasks : fetchAll(t)
    \/ \E t \in 1..NumTasks : decode(t)

\* connect and concurrent execute calls on queries built beforehand
SpecDb == InitQ /\ [][NextDb]_vars

\* one connect has returned a handle
InitConnected ==
    /\ objs = <<>>
    /\ last = NoCall
    /\ outs = [obj |-> 0, seq |-> <<>>]
    /\ connects = [c \in 1..NumConnects |->
                     IF c = 1
                     THEN [NoConnect EXCEPT !.pc = "returned",
                              !.db_path = "sqlite::memory:",
                              !.ok = TRUE, !.pool = 1]
                     ELSE NoConnect]
    /\ pools = <<[path |-> "sqlite::memory:", busy |-> 0]>>
    /\ tasks = [t \in 1..NumTasks |-> NoTask]

\* the steps of the execute future of call t
executeSteps(t) ==
    executeFuture(t) \/ fetchAcquire(t) \/ fetchTimeout(t) \/ fetchAll(t)
      \/ decode(t)

NextExec ==
    \/ \E t \in 1..NumTasks, q \in ExecInputs : execute(t, 1, q)
    \/ \E t \in 1..NumTasks : executeFuture(t)
    \/ \E t \in 1..NumTasks : fetchAcquire(t)
    \/ \E t \in 1..NumTasks : fetchTimeout(t)
    \/ \E t \in 1..NumTasks : fetchAll(t)
    \/ \E t \in 1..NumTasks : decode(t)

\* concurrent execute calls on the handle one connect returned
SpecExec == InitConnected /\ [][NextExec]_vars

\* the scheduler polls every future that can make progress, and the pool
\* hands a free connection to a waiting acquire or times it out
FairSpecExec ==
    /\ SpecExec
    /\ \A t \in 1..NumTasks : WF_vars(executeSteps(t))

NextShare ==
    \/ /\ Len(objs) < ShareObjs
       /\ \E t \in Tables, c \in ColumnLists : select(t, c)
    \/ /\ Len(objs) < ShareObjs
       /\ \E d \in 1..ShareObjs, f \in FilterInputs : where_(d, f[1], f[2])
    \/ \E d \in 1..Len(objs) : execute(1, 1, objs[d])
    \/ executeFuture(1)
    \/ fetchAcquire(1)
    \/ fetchAll(1)
    \/ decode(1)

\* QueryBuilder calls interleaved with one execute call that is handed a
\* held object
SpecShare == InitConnected /\ [][NextShare]_vars

----------------------------------------------------------------------------
(* Texts the specification promises, written from its sentences *)

ExampleQuery ==
    QueryBuilder("users", <<"id", "name">>,
                 <<<<"id", "1">>, <<"active", "true">>>>)

\* <col1>, <col2>, ...
RECURSIVE ColumnText(_)
ColumnText(columns) ==
    IF columns = <<>> THEN ""
    ELSE IF Len(columns) = 1 THEN columns[1]
    ELSE columns[1] \o ", " \o ColumnText(Tail(columns))

\* SELECT <cols joined by ", "> FROM <table>
SelectText(q) == "SELECT " \o ColumnText(q.columns) \o " FROM " \o q.table

\* one term <ci><eq> per filter, joined by AND in insertion order
RECURSIVE WhereText(_, _)
WhereText(filters, eq) ==
    IF Len(filters) = 1 THEN filters[1][1] \o eq
    ELSE filters[1][1] \o eq \o " AND " \o WhereText(Tail(filters), eq)

\* [v1, ..., vN]
RECURSIVE Values(_)
Values(filters) ==
    IF filters = <<>> THEN <<>>
    ELSE <<filters[1][2]>> \o Values(Tail(filters))

FilterColumns(filters) == [i \in 1..Len(filters) |-> filters[i][1]]

SameShape(q, r) ==
    /\ q.table = r.table
    /\ q.columns = r.columns
    /\ FilterColumns(q.where_clauses) = FilterColumns(r.where_clauses)

IsPrefix(s, t) == Len(s) <= Len(t) /\ SubSeq(t, 1, Len(s)) = s

Built == last.op = "build"

----------------------------------------------------------------------------
(* Claims about QueryBuilder, under SpecQ *)

\* C1 as stated: a descriptor with N >= 1 filters serialises to a WHERE
\* clause of N terms <ci>=? (no blanks around =) joined by AND, with
\* params [v1..vN]; the example gives exactly
\* SELECT id, name FROM users WHERE id=? AND active=?
C1_AsStated ==
    (Built /\ Len(last.pre.where_clauses) >= 1) =>
        /\ last.out.sql = SelectText(last.pre) \o " WHERE "
                            \o WhereText(last.pre.where_clauses, "=?")
        /\ last.out.params = Values(last.pre.where_clauses)
        /\ last.pre = ExampleQuery =>
             last.out.sql = "SELECT id, name FROM users WHERE id=? AND active=?"

\* C1 amended: a descriptor with N >= 1 filters serialises to a WHERE clause
\* of N terms "<ci> = ?" (one blank on each side of =) joined by " AND " in
\* insertion order, with params [v1..vN] in that order; the example gives
\* exactly SELECT id, name FROM users WHERE id = ? AND active = ? with
\* params ["1","true"]
C1_WhereTermsAndParams ==
    (Built /\ Len(last.pre.where_clauses) >= 1) =>
        /\ last.out.sql = SelectText(last.pre) \o " WHERE "
                            \o WhereText(last.pre.where_clauses, " = ?")
        /\ last.out.params = Values(last.pre.where_clauses)
        /\ Len(last.out.params) = Len(last.pre.where_clauses)
        /\ last.pre = ExampleQuery =>
             /\ last.out.sql =
                  "SELECT id, name FROM users WHERE id = ? AND active = ?"
             /\ last.out.params = <<"1", "true">>

\* the example descriptor has been serialised
C1_Witness == Built /\ last.pre = ExampleQuery

\* C2: a descriptor with no filter serialises to exactly
\* SELECT <cols joined by ", "> FROM <table>, no WHERE clause, and empty
\* params; an empty column list gives "SELECT  FROM <table>"
C2_NoFilterText ==
    (Built /\ last.pre.where_clauses = <<>>) =>
        /\ last.out.sql = SelectText(last.pre)
        /\ last.out.params = <<>>
        /\ last.pre.columns = <<>> =>
             last.out.sql = "SELECT  FROM " \o last.pre.table
        /\ (last.pre.columns = <<"id", "name">> /\ last.pre.table = "users")
             => last.out.sql = "SELECT id, name FROM users"

\* a descriptor with no columns and no filters has been serialised
C2_Witness ==
    Built /\ last.pre.where_clauses = <<>> /\ last.pre.columns = <<>>

\* C3: filter values are bound, never written into the text: the text
\* returned for a descriptor is the text of every held descriptor with the
\* same table, columns and filter columns, whatever its values, and the
\* values are exactly the params
C3_ValuesOnlyInParams ==
    Built =>
        /\ last.out.params = Values(last.pre.where_clauses)
        /\ \A e \in 1..Len(objs) :
             SameShape(objs[e], last.pre) =>
                build(objs[e]).sql = last.out.sql

\* a serialised descriptor and a held one differ in a filter value only
C3_Witness ==
    /\ Built
    /\ \E e \in 1..Len(objs) :
         /\ SameShape(objs[e], last.pre)
         /\ Len(last.pre.where_clauses) >= 1
         /\ Values(objs[e].where_clauses) /= Values(last.pre.where_clauses)

\* C8: toSql is idempotent and read-only: the outputs returned for one
\* descriptor with no whereEqual in between are all identical, and the
\* call leaves the descriptor's table, columns and filters as they were
C8_ToSqlIdempotent ==
    /\ \A i, j \in 1..Len(outs.seq) : outs.seq[i] = outs.seq[j]
    /\ Built => objs[last.obj] = last.pre

\* a descriptor with a filter has been serialised twice in a row
C8_Witness ==
    /\ Built
    /\ Len(outs.seq) >= 2
    /\ Len(last.pre.where_clauses) >= 1

\* C9: filters are append-only: every step leaves each held descriptor's
\* table and columns alone and its old filter list a prefix of the new
\* one; a whereEqual(column, value) adds exactly (column, value) at the end
\* of the receiver's list and returns a descriptor equal to the receiver
C9_AppendOnly ==
    [][ /\ \A d \in 1..Len(objs) :
             /\ d \in 1..Len(objs')
             /\ objs'[d].table = objs[d].table
             /\ objs'[d].columns = objs[d].columns
             /\ IsPrefix(objs[d].where_clauses, objs'[d].where_clauses)
        /\ (last' /= last /\ last'.op = "where_") =>
             /\ objs'[last'.obj].where_clauses =
                  objs[last'.obj].where_clauses
                    \o <<(<<last'.column, last'.value>>)>>
             /\ objs'[last'.ret] = objs'[last'.obj]
      ]_vars

\* whereEqual has acted on a descriptor that already had a filter
C9_Witness ==
    /\ last.op = "where_"
    /\ Len(last.pre.where_clauses) >= 1
    /\ last.pre.where_clauses[1] /= <<last.column, last.value>>

----------------------------------------------------------------------------
(* Claims about Database, under SpecDb and FairSpecExec *)

Done(t) == tasks[t].pc = "done"

KnownDecl == {"TEXT", "INTEGER", "REAL", "BLOB"}

TagOfDecl(decl) ==
    CASE decl = "TEXT" -> "Text"
      [] decl = "INTEGER" -> "Integer"
      [] decl = "REAL" -> "Real"
      [] decl = "BLOB" -> "Blob"

KindOfDecl(decl) ==
    CASE decl = "TEXT" -> "text"
      [] decl = "INTEGER" -> "integer"
      [] decl = "REAL" -> "real"
      [] decl = "BLOB" -> "blob"

\* the dynamic value the specification gives a cell
ExpectedValue(cell) ==
    IF cell.decl \in KnownDecl /\ cell.stored.kind /= "null"
    THEN PyValue(TagOfDecl(cell.decl), cell.stored.v)
    ELSE PyNone

\* a cell whose stored value cannot be read as its declared type
Undecodable(cell) ==
    /\ cell.decl \in KnownDecl
    /\ cell.stored.kind /= "null"
    /\ cell.stored.kind /= KindOfDecl(cell.decl)

TimeoutMessage == "pool timed out while waiting for an open connection"

\* C4: every cell of a returned record is decoded by the declared type
\* name of its column alone: TEXT, INTEGER, REAL, BLOB give Text, Integer,
\* Real, Blob with the stored value, a stored NULL gives Null, and any
\* other declared type gives Null whatever is stored
C4_DecodeByDeclaredType ==
    \A t \in 1..NumTasks :
        (Done(t) /\ tasks[t].result.ok) =>
            /\ Len(tasks[t].result.records) = Len(tasks[t].rows)
            /\ \A i \in 1..Len(tasks[t].rows) :
                 /\ Len(tasks[t].result.records[i]) = Len(tasks[t].rows[i])
                 /\ \A j \in 1..Len(tasks[t].rows[i]) :
                      tasks[t].result.records[i][j] =
                         [name |-> tasks[t].rows[i][j].name,
                          value |-> ExpectedValue(tasks[t].rows[i][j])]

\* a call has returned records holding a Text, an Integer, a Real, a Blob,
\* a Null from a stored NULL and a Null from a NUMERIC column storing 1
C4_Witness ==
    \E t \in 1..NumTasks :
        /\ Done(t)
        /\ tasks[t].result.ok
        /\ tasks[t].query = QItems
        /\ tasks[t].rows[1][5].stored.kind = "integer"
        /\ tasks[t].result.records[1][5].value = PyNone
        /\ tasks[t].result.records[1][3].value = PyValue("Real", "1.5")

\* C5: execute is all-or-nothing: when the driver fails or a cell of any
\* row cannot be decoded the caller gets one QueryError with the
\* underlying message and no record; otherwise one record per fetched
\* row, in the row order of the database
C5_AllOrNothing ==
    \A t \in 1..NumTasks :
        Done(t) =>
            LET fetched == fetch_all(tasks[t].sql, tasks[t].binds)
                rows == tasks[t].rows
                result == tasks[t].result
                badCells == UNION {{<<i, j>> : j \in {k \in 1..Len(rows[i]) :
                                        Undecodable(rows[i][k])}} :
                                   i \in 1..Len(rows)}
            IN  IF result.ok
                THEN /\ fetched.ok
                     /\ badCells = {}
                     /\ rows = fetched.rows
                     /\ Len(result.records) = Len(rows)
                     /\ \A i \in 1..Len(rows) :
                          result.records[i] =
                             [j \in 1..Len(rows[i]) |->
                                 [name |-> rows[i][j].name,
                                  value |-> ExpectedValue(rows[i][j])]]
                     /\ result.err = NoError
                ELSE /\ result.records = <<>>
                     /\ result.err.kind = "QueryError"
                     /\ result.err.text = "Query error: " \o result.err.msg
                     /\ \/ ~fetched.ok /\ result.err.msg = fetched.msg
                        \/ result.err.msg = TimeoutMessage
                        \/ \E ij \in badCells :
                             result.err.msg = "mismatched types for column "
                                \o rows[ij[1]][ij[2]].name

\* a call failed on the second row after the first row had been decoded
C5_Witness ==
    \E t \in 1..NumTasks :
        /\ Done(t)
        /\ tasks[t].query = QLoose
        /\ Len(tasks[t].rows) = 3
        /\ ~tasks[t].result.ok

\* C6: connect ends in one of two ways: a handle on an open pool, or a
\* ConnectionError with the underlying message; an unreachable location
\* gives the error and no handle; before it ends nothing is observable,
\* and every execute runs on the pool of a handle connect returned
C6_ConnectTwoOutcomes ==
    /\ \A c \in 1..NumConnects :
         /\ connects[c].pc /= "returned" =>
              ~connects[c].ok /\ connects[c].pool = 0
                 /\ connects[c].err = NoError
         /\ connects[c].pc = "returned" =>
              \/ /\ connects[c].ok
                 /\ connects[c].pool \in 1..Len(pools)
                 /\ pools[connects[c].pool].path = connects[c].db_path
                 /\ connects[c].err = NoError
              \/ /\ ~connects[c].ok
                 /\ connects[c].pool = 0
                 /\ connects[c].err.kind = "ConnectionError"
                 /\ connects[c].err.msg = "unable to open database file"
                 /\ connects[c].err.text =
                      "Connection error: unable to open database file"
         /\ (connects[c].pc = "returned"
               /\ connects[c].db_path \notin ReachablePaths) =>
              ~connects[c].ok /\ connects[c].err.kind = "ConnectionError"
    /\ \A t \in 1..NumTasks :
         tasks[t].pc /= "idle" => tasks[t].handle \in 1..Len(pools)

\* a connect to the missing file has returned its error
C6_Witness ==
    \E c \in 1..NumConnects :
        /\ connects[c].pc = "returned"
        /\ connects[c].db_path = "sqlite:/missing/app.db"
        /\ connects[c].err.kind = "ConnectionError"

\* what a call returns when it runs alone
AloneResult(query) ==
    LET built == build(query)
        fetched == fetch_all(built.sql, bindAll(built.params))
    IN  IF fetched.ok THEN decodeRows(fetched.rows, 1, <<>>)
        ELSE ExecResult(FALSE, <<>>, QueryError(fetched.msg))

InFlight(p) == {t \in 1..NumTasks : tasks[t].pc = "running" /\ tasks[t].handle = p}

\* C7 as stated: every concurrent execute call completes successfully
C7_AsStated ==
    \A t \in 1..NumTasks : Done(t) => tasks[t].result.ok

ConcurrentSafety ==
    /\ \A t \in 1..NumTasks :
         /\ tasks[t].pc /= "idle" => tasks[t].pool = tasks[t].handle
         /\ Done(t) =>
              \/ tasks[t].result = AloneResult(tasks[t].query)
              \/ /\ ~tasks[t].result.ok
                 /\ tasks[t].result.records = <<>>
                 /\ tasks[t].result.err = QueryError(TimeoutMessage)
    /\ \A p \in 1..Len(pools) :
         /\ Cardinality(InFlight(p)) <= PoolCap
         /\ pools[p].busy = Cardinality(InFlight(p))

\* C7 amended: concurrent execute calls on clones of one handle all
\* complete without deadlock, each either with exactly the records its own
\* query gives when run alone or with a QueryError (the one its own query
\* gives alone, or the pool's acquire timeout); the queries in flight
\* never exceed the capacity of the pool, and all clones use the one pool
C7_ConcurrentExecutes ==
    /\ []ConcurrentSafety
    /\ \A t \in 1..NumTasks : (tasks[t].pc /= "idle") ~> Done(t)

\* two calls on the same handle have completed, each with the records of
\* its own query
C7_Witness ==
    /\ Done(1) /\ Done(2)
    /\ tasks[1].handle = tasks[2].handle
    /\ tasks[1].result.ok /\ tasks[2].result.ok
    /\ tasks[1].query = QItems /\ tasks[2].query = QUsersById
    /\ Len(tasks[2].result.records) = 1

----------------------------------------------------------------------------
(* Claim about sharing, under SpecShare *)

\* C10: the descriptor whereEqual returns does not alias the receiver:
\* right after r = q.whereEqual(c, v) both hold the same table, columns
\* and filters, the receiver having gained (c, v); a whereEqual changes
\* no held object but its receiver; and no step of an execution changes a
\* held descriptor or the one the execution was handed
C10_NoAliasing ==
    /\ [](last.op = "where_" =>
            /\ last.ret /= last.obj
            /\ objs[last.ret] = objs[last.obj]
            /\ objs[last.obj] =
                 [last.pre EXCEPT !.where_clauses =
                     Append(@, <<last.column, last.value>>)])
    /\ [][ /\ (last' /= last /\ last'.op = "where_") =>
                \A e \in 1..Len(objs) :
                    e /= last'.obj => objs'[e] = objs[e]
           /\ tasks' /= tasks =>
                /\ objs' = objs
                /\ \A t \in 1..NumTasks :
                     tasks[t].pc /= "idle" =>
                        tasks'[t].query = tasks[t].query
         ]_vars

\* q gained a second filter while the r returned by its first whereEqual
\* kept one, and an execution handed a held descriptor has completed
C10_Witness ==
    /\ last.op = "where_"
    /\ Len(last.pre.where_clauses) >= 1
    /\ \E e \in 1..Len(objs) :
         /\ e /= last.obj
         /\ e /= last.ret
         /\ objs[e] = last.pre
    /\ Done(1)
    /\ \E d \in 1..Len(objs) :
         tasks[1].query.table = objs[d].table

====
